---- MODULE Spec2Model ----
(***************************************************************************)
(* TalentScout hiring assistant (src/app.py, src/utils.py).                *)
(*                                                                         *)
(* The Streamlit script is re-run from top to bottom for every UI event;   *)
(* st.session_state is what survives between runs.  One action of this     *)
(* module is one complete run of the script.  Python str values are TLA+   *)
(* strings, Optional[T] is the empty sequence (None) or <<v>>, a dict is a *)
(* function whose DOMAIN is its key set.                                   *)
(***************************************************************************)
EXTENDS Integers, Sequences, FiniteSets, TLC

VARIABLES
    step,            \* st.session_state.step
    field_index,     \* st.session_state.field_index
    candidate,       \* st.session_state.candidate
    techs,           \* st.session_state.techs
    ratings,         \* st.session_state.ratings
    rating_idx,      \* st.session_state.rating_idx (.get default 0)
    qmap,            \* st.session_state.qmap
    flat_questions,  \* st.session_state.flat_questions
    q_ptr,           \* st.session_state.q_ptr
    answers,         \* st.session_state.answers
    consent,         \* st.session_state.consent (checkbox key)
    final_summary,   \* st.session_state.final_summary (absent until set)
    run,             \* what the latest script run was triggered by
    said,            \* assistant messages say() appended to history in the latest run
    gen,             \* safe_generate calls of the latest run, in order
    crashed,         \* the latest run ended in an uncaught exception
    saved,           \* snapshots save_simulated appended in the latest run
    appended,        \* lines this session has appended to candidates.jsonl
    summaries,       \* llm_final_summary calls this session has made
    applied,         \* a helper function applied on its own, with its arguments
    returned         \* what that application returned

session == <<step, field_index, candidate, techs, ratings, rating_idx, qmap,
             flat_questions, q_ptr, answers, consent, final_summary,
             run, said, gen, crashed, saved, appended, summaries>>

vars == <<session, applied, returned>>

(***************************************************************************)
(* Bounds of the model.                                                    *)
(***************************************************************************)
\* Snapshot lines one session may append before the model stops saving more.
MaxSnapshots == 2
\* Largest retry count safe_generate is applied with on its own.
MaxRetries == 4

(***************************************************************************)
(* Python str primitives.                                                  *)
(***************************************************************************)
None == <<>>
Some(v) == <<v>>

Char(s, i) == SubSeq(s, i, i)
Drop(s, n) == SubSeq(s, n + 1, Len(s))
Take(s, n) == SubSeq(s, 1, IF n < Len(s) THEN n ELSE Len(s))

UpperAZ == "ABCDEFGHIJKLMNOPQRSTUVWXYZ"
LowerAZ == "abcdefghijklmnopqrstuvwxyz"
Digits == "0123456789"

Letters(table) == {Char(table, i) : i \in 1..Len(table)}
UpperSet == Letters(UpperAZ)
LowerSet == Letters(LowerAZ)
DigitSet == Letters(Digits)

\* position of c in the table
IndexIn(c, table) == CHOOSE i \in 1..Len(table) : Char(table, i) = c

ToLower == [c \in UpperSet |-> Char(LowerAZ, IndexIn(c, UpperAZ))]
ToUpper == [c \in LowerSet |-> Char(UpperAZ, IndexIn(c, LowerAZ))]
DigitValue == [c \in DigitSet |-> IndexIn(c, Digits) - 1]

IsUpper(c) == c \in UpperSet
IsLower(c) == c \in LowerSet
IsLetter(c) == IsUpper(c) \/ IsLower(c)
IsDigit(c) == c \in DigitSet
IsSpace(c) == c \in {" ", "\t", "\n", "\r"}
\* \w of the re module
IsWord(c) == IsLetter(c) \/ IsDigit(c) \/ c = "_"

LowerChar(c) == IF IsUpper(c) THEN ToLower[c] ELSE c
UpperChar(c) == IF IsLower(c) THEN ToUpper[c] ELSE c

\* the characters i.. of s in lower case
RECURSIVE LowerFrom(_, _)
LowerFrom(s, i) ==
    IF i > Len(s) THEN "" ELSE LowerChar(Char(s, i)) \o LowerFrom(s, i + 1)

lower(s) == LowerFrom(s, 1)

capitalize(s) == IF s = "" THEN "" ELSE UpperChar(Char(s, 1)) \o LowerFrom(s, 2)

\* s.strip(): from the first to the last character that is not whitespace
strip(s) ==
    LET keep == {i \in 1..Len(s) : ~IsSpace(Char(s, i))}
        first == CHOOSE i \in keep : \A j \in keep : i <= j
        last == CHOOSE i \in keep : \A j \in keep : j <= i
    IN  IF keep = {} THEN "" ELSE SubSeq(s, first, last)

\* c in s
Contains(s, c) == \E i \in 1..Len(s) : Char(s, i) = c

RECURSIVE Repeat(_, _)
Repeat(c, n) == IF n <= 0 THEN "" ELSE c \o Repeat(c, n - 1)

\* the digit characters of s from position i on, in order
RECURSIVE DigitsFrom(_, _)
DigitsFrom(s, i) ==
    IF i > Len(s) THEN ""
    ELSE (IF IsDigit(Char(s, i)) THEN Char(s, i) ELSE "") \o DigitsFrom(s, i + 1)

OnlyDigits(s) == DigitsFrom(s, 1)

isdigit(s) == s # "" /\ \A i \in 1..Len(s) : IsDigit(Char(s, i))
isalpha(s) == s # "" /\ \A i \in 1..Len(s) : IsLetter(Char(s, i))

\* s.split(sep) for a one-character separator; cur is the piece being read
RECURSIVE SplitFrom(_, _, _, _)
SplitFrom(s, sep, i, cur) ==
    IF i > Len(s) THEN <<cur>>
    ELSE IF Char(s, i) = sep THEN <<cur>> \o SplitFrom(s, sep, i + 1, "")
    ELSE SplitFrom(s, sep, i + 1, cur \o Char(s, i))

split(s, sep) == SplitFrom(s, sep, 1, "")

\* s.split(): the maximal runs of non-whitespace characters
RECURSIVE SplitSpaceFrom(_, _, _)
SplitSpaceFrom(s, i, cur) ==
    IF i > Len(s) THEN (IF cur = "" THEN <<>> ELSE <<cur>>)
    ELSE IF IsSpace(Char(s, i))
         THEN (IF cur = "" THEN <<>> ELSE <<cur>>) \o SplitSpaceFrom(s, i + 1, "")
    ELSE SplitSpaceFrom(s, i + 1, cur \o Char(s, i))

split_ws(s) == SplitSpaceFrom(s, 1, "")

\* sep.join(parts)
RECURSIVE join(_, _)
join(sep, parts) ==
    IF parts = <<>> THEN ""
    ELSE IF Len(parts) = 1 THEN parts[1]
    ELSE parts[1] \o sep \o join(sep, Tail(parts))

\* int(s) for a string of decimal digits
RECURSIVE IntUpTo(_, _)
IntUpTo(s, i) ==
    IF i = 0 THEN 0 ELSE 10 * IntUpTo(s, i - 1) + DigitValue[Char(s, i)]

IntOf(s) == IntUpTo(s, Len(s))

\* str(n) for n >= 0
RECURSIVE StrOf(_)
StrOf(n) ==
    IF n < 10 THEN Char(Digits, n + 1)
    ELSE StrOf(n \div 10) \o Char(Digits, (n % 10) + 1)

(***************************************************************************)
(* JSON values as json.loads returns them, and the text of a backend       *)
(* reply.  A value is a record tagged with its Python type; a reply text   *)
(* is the JSON document it carries (if any) between two stretches of       *)
(* other text.                                                             *)
(***************************************************************************)
NoObj == [k \in {} |-> 0]

JNull == [type |-> "null", obj |-> NoObj, items |-> <<>>, text |-> "", num |-> 0]
JNum(n) == [type |-> "num", obj |-> NoObj, items |-> <<>>, text |-> "", num |-> n]
JStr(s) == [type |-> "str", obj |-> NoObj, items |-> <<>>, text |-> s, num |-> 0]
\* a JSON array of strings
JList(qs) == [type |-> "list", obj |-> NoObj, items |-> qs, text |-> "", num |-> 0]
JDict(f) == [type |-> "dict", obj |-> f, items |-> <<>>, text |-> "", num |-> 0]
\* no JSON document in the text at all
NoDoc == [type |-> "none", obj |-> NoObj, items |-> <<>>, text |-> "", num |-> 0]

Text(pre, doc, post) == [pre |-> pre, doc |-> doc, post |-> post]
Prose(s) == Text(s, NoDoc, "")

\* bool(v)
Truthy(v) ==
    CASE v.type = "dict" -> DOMAIN v.obj # {}
      [] v.type = "list" -> v.items # <<>>
      [] v.type = "str" -> v.text # ""
      [] v.type = "num" -> v.num # 0
      [] OTHER -> FALSE

\* d.get(k) on the object of a JSON dict; None is JNull
Get(d, k) == IF k \in DOMAIN d THEN d[k] ELSE JNull

\* a or b
Or(a, b) == IF Truthy(a) THEN a ELSE b

(***************************************************************************)
(* src/utils.py                                                            *)
(***************************************************************************)
END_KEYWORDS == {"bye", "exit", "quit", "stop", "end", "thank you", "thanks"}

is_end_message(s) == lower(strip(s)) \in END_KEYWORDS

\* re.split(r"(\W+)", value): the maximal runs of word and of non-word characters
RECURSIVE RunsFrom(_, _, _)
RunsFrom(s, i, cur) ==
    IF i > Len(s) THEN (IF cur = "" THEN <<>> ELSE <<cur>>)
    ELSE IF cur = "" \/ IsWord(Char(cur, 1)) = IsWord(Char(s, i))
         THEN RunsFrom(s, i + 1, cur \o Char(s, i))
    ELSE <<cur>> \o RunsFrom(s, i + 1, Char(s, i))

Runs(s) == RunsFrom(s, 1, "")

AnonymizePart(p) ==
    IF isalpha(p) /\ Len(p) > 1 THEN Char(p, 1) \o Repeat("*", Len(p) - 1)
    ELSE IF isdigit(p) /\ Len(p) >= 3 THEN Repeat("*", Len(p))
    ELSE p

anonymize(value) ==
    IF value = "" THEN value
    ELSE LET parts == Runs(value)
         IN  join("", [i \in 1..Len(parts) |-> AnonymizePart(parts[i])])

\* index of the first "@" of s, 0 when there is none
RECURSIVE FindChar(_, _, _)
FindChar(s, c, i) ==
    IF i > Len(s) THEN 0
    ELSE IF Char(s, i) = c THEN i
    ELSE FindChar(s, c, i + 1)

\* the local part is masked with a fixed run of four stars
mask_email_fixed(email0) ==
    LET email == strip(email0)
        at == FindChar(email, "@", 1)
    IN  IF at = 0 THEN anonymize(email)
        ELSE IF at = 1 THEN anonymize(email)
        ELSE Char(email, 1) \o "****" \o "@" \o Drop(email, at)

mask_email(email0) ==
    LET email == strip(email0)
        at == FindChar(email, "@", 1)
        user == Take(email, at - 1)
        domain == Drop(email, at)
    IN  IF at = 0 THEN anonymize(email)
        ELSE IF user = "" THEN anonymize(email)
        ELSE Char(user, 1)
             \o Repeat("*", IF Len(user) - 1 > 1 THEN Len(user) - 1 ELSE 1)
             \o "@" \o domain

\* Optional[dict]: the object of the first JSON object found in the text
safe_extract_json(text) ==
    IF text.pre = "" /\ text.doc = NoDoc /\ text.post = "" THEN None
    ELSE IF strip(text.pre) = "" /\ strip(text.post) = "" /\ text.doc.type = "dict"
         THEN Some(text.doc.obj)                    \* json.loads(text) is a dict
    ELSE IF text.doc.type = "dict" /\ ~Contains(text.pre, "{")
            /\ ~Contains(text.post, "}")
         THEN Some(text.doc.obj)                    \* text[start : end + 1] parses
    ELSE None

HasLetter(t) == \E i \in 1..Len(t) : IsLetter(Char(t, i))

KeepTech(t) == t # "" /\ HasLetter(t)

\* t[:50] and [...][:10]
MaxTechLen == 50
MaxTechs == 10

tech_list_from_input(s) ==
    LET raw == split(s, ",")
        items == [i \in 1..Len(raw) |-> strip(raw[i])]
        kept == SelectSeq(items, KeepTech)
        cut == [i \in 1..Len(kept) |-> Take(kept[i], MaxTechLen)]
    IN  SubSeq(cut, 1, IF Len(cut) < MaxTechs THEN Len(cut) ELSE MaxTechs)

\* \b at the gap before position i
WordAt(s, i) == i >= 1 /\ i <= Len(s) /\ IsWord(Char(s, i))
Boundary(s, i) == WordAt(s, i - 1) # WordAt(s, i)

\* the group ([1-9]|10) matched at position i between two \b, "" when none
RatingAt(s, i) ==
    IF ~Boundary(s, i) THEN ""
    ELSE IF IsDigit(Char(s, i)) /\ Char(s, i) # "0" /\ Boundary(s, i + 1)
         THEN Char(s, i)
    ELSE IF i + 1 <= Len(s) /\ SubSeq(s, i, i + 1) = "10" /\ Boundary(s, i + 2)
         THEN "10"
    ELSE ""

RECURSIVE SearchRating(_, _)
SearchRating(s, i) ==
    IF i > Len(s) THEN None
    ELSE IF RatingAt(s, i) # "" THEN Some(IntOf(RatingAt(s, i)))
    ELSE SearchRating(s, i + 1)

parse_1_to_10(s) == SearchRating(strip(s), 1)

(***************************************************************************)
(* src/app.py: the generation backend and the three LLM helpers.           *)
(*                                                                         *)
(* What the backend does on each attempt of one safe_generate call is an   *)
(* input: a sequence of outcomes, one per attempt, each a failure (the SDK *)
(* raised) or the text of the reply.                                       *)
(***************************************************************************)
Failure == [ok |-> FALSE, text |-> Prose("")]
Reply(text) == [ok |-> TRUE, text |-> text]

\* time.sleep(backoff * (2 ** i)) with the default backoff of 1.0
Backoff == 1

RECURSIVE Pow2(_)
Pow2(i) == IF i = 0 THEN 1 ELSE 2 * Pow2(i - 1)

\* the attempts i, i+1, ... of the retry loop
RECURSIVE Attempt(_, _, _, _)
Attempt(outcomes, retries, i, slept) ==
    IF i >= retries
    THEN [raised |-> TRUE, text |-> Prose(""), retries |-> retries,
          calls |-> i, slept |-> slept]
    ELSE IF outcomes[i + 1].ok
         THEN [raised |-> FALSE, text |-> outcomes[i + 1].text, retries |-> retries,
               calls |-> i + 1, slept |-> slept]
    ELSE Attempt(outcomes, retries, i + 1, Append(slept, Backoff * Pow2(i)))

\* the first attempt decides: nothing is retried
safe_generate_once(outcomes, retries) ==
    Attempt(outcomes, IF retries > 1 THEN 1 ELSE retries, 0, <<>>)

safe_generate(outcomes, retries) == Attempt(outcomes, retries, 0, <<>>)

\* retries=3 of llm_generate_questions, retries=2 of llm_score_answer and llm_final_summary
QuestionRetries == 3
ScoreRetries == 2
SummaryRetries == 2

\* what a run records of one safe_generate call made by the helper fn
Call(fn, g) ==
    [fn |-> fn, raised |-> g.raised,
     json |-> ~g.raised /\ safe_extract_json(g.text) # None]

\* "data = safe_extract_json(raw) or {}"
JsonOrEmpty(text) ==
    LET d == safe_extract_json(text) IN IF d = None THEN NoObj ELSE d[1]

Fallback(t) ==
    << "Briefly explain a key concept in " \o t \o ".",
       "How do you debug common issues in " \o t \o "?",
       "Describe a challenging " \o t \o " task you solved." >>

NonEmpty(q) == q # ""

\* [str(q).strip() for q in qs if str(q).strip()]
StripNonEmpty(qs) == SelectSeq([i \in 1..Len(qs) |-> strip(qs[i])], NonEmpty)

MinQuestions == 3
MaxQuestions == 5

\* data.get(t) or data.get(t.capitalize()) or data.get(t.lower()) or []
Lookup(data, t) ==
    Or(Get(data, t), Or(Get(data, capitalize(t)), Or(Get(data, lower(t)), JList(<<>>))))

\* the list stored under cleaned[t] when the looked-up value is a list
Sanitize(qs, t) ==
    LET given == StripNonEmpty(qs)
        padded == IF Len(given) < MinQuestions THEN given \o Fallback(t) ELSE given
    IN  Take(padded, MaxQuestions)

\* a tech gets an entry of cleaned only "if isinstance(qs, list)"
IsCleaned(data, t) == Lookup(data, t).type = "list"

\* the dict cleaned built from the parsed reply
Cleaned(data, ts) ==
    LET keys == {ts[i] : i \in {j \in 1..Len(ts) : IsCleaned(data, ts[j])}}
    IN  [t \in keys |-> Sanitize(Lookup(data, t).items, t)]

\* raised: safe_generate's RuntimeError leaves the function uncaught
llm_generate_questions(ts, outcomes) ==
    LET g == safe_generate(outcomes, QuestionRetries)
    IN  [raised |-> g.raised, call |-> Call("llm_generate_questions", g),
         cleaned |-> IF g.raised THEN NoObj ELSE Cleaned(JsonOrEmpty(g.text), ts)]

\* int(s) of a str: optional sign and digits between whitespace, else ValueError
IntOfStr(s0) ==
    LET s == strip(s0)
        neg == s # "" /\ Char(s, 1) = "-"
        body == IF s # "" /\ Char(s, 1) \in {"-", "+"} THEN Drop(s, 1) ELSE s
    IN  IF isdigit(body) THEN Some(IF neg THEN 0 - IntOf(body) ELSE IntOf(body))
        ELSE None

\* "int(score) if score is not None else None", None too when int() raises
IntCoerce(v) ==
    CASE v.type = "num" -> Some(v.num)
      [] v.type = "str" -> IntOfStr(v.text)
      [] OTHER -> None

\* a value of the parsed dict as Optional: None when the key is missing or null
Opt(v) == IF v.type = "null" THEN None ELSE Some(v)

llm_score_answer(outcomes) ==
    LET g == safe_generate(outcomes, ScoreRetries)
        data == JsonOrEmpty(g.text)
    IN  [raised |-> g.raised, call |-> Call("llm_score_answer", g),
         score |-> IF g.raised THEN None ELSE IntCoerce(Get(data, "score")),
         feedback |-> IF g.raised THEN None ELSE Opt(Get(data, "feedback"))]

\* the characters of a reply that carries no JSON document
RawStr(text) == text.pre \o text.post

llm_final_summary(outcomes) ==
    LET g == safe_generate(outcomes, SummaryRetries)
    IN  [raised |-> g.raised, call |-> Call("llm_final_summary", g),
         text |-> IF g.raised THEN "" ELSE strip(RawStr(g.text))]

(***************************************************************************)
(* src/app.py: session state and the conversation flow.  The texts are the *)
(* source's, with its typographic dash and apostrophe written in ASCII and *)
(* its emoji left out.                                                     *)
(***************************************************************************)
FIELDS ==
    << "Full Name", "Email Address", "Phone Number", "Years of Experience",
       "Desired Position(s)", "Current Location", "Tech Stack" >>

FieldNames == {FIELDS[i] : i \in 1..Len(FIELDS)}

\* FIELDS.index("Tech Stack")
TechStackIndex == CHOOSE i \in 0..(Len(FIELDS) - 1) : FIELDS[i + 1] = "Tech Stack"

\* the session state as one record
Cur ==
    [step |-> step, field_index |-> field_index, candidate |-> candidate,
     techs |-> techs, ratings |-> ratings, rating_idx |-> rating_idx, qmap |-> qmap,
     flat_questions |-> flat_questions, q_ptr |-> q_ptr, answers |-> answers,
     consent |-> consent, final_summary |-> final_summary,
     run |-> run, said |-> said, gen |-> gen, crashed |-> crashed, saved |-> saved,
     appended |-> appended, summaries |-> summaries]

\* the session state of a new session, before the script has run
Fresh ==
    [step |-> "greet", field_index |-> 0, candidate |-> [f \in FieldNames |-> None],
     techs |-> <<>>, ratings |-> NoObj, rating_idx |-> 0, qmap |-> NoObj,
     flat_questions |-> <<>>, q_ptr |-> 0, answers |-> <<>>,
     consent |-> FALSE, final_summary |-> None,
     run |-> "start", said |-> <<>>, gen |-> <<>>, crashed |-> FALSE, saved |-> <<>>,
     appended |-> 0, summaries |-> 0]

\* a script run begins: nothing said, generated or saved yet
Begin(S, kind) ==
    [S EXCEPT !.run = kind, !.said = <<>>, !.gen = <<>>, !.crashed = FALSE,
              !.saved = <<>>]

say(S, text) == [S EXCEPT !.said = Append(@, text)]

Greeting == "Hello! I'm your AI hiring assistant. Let's get started with your details."
Closing == "Thank you for your time! Our team will reach out soon."
SummaryUnavailable == "Summary unavailable due to a temporary issue."

FieldPrompt(field) ==
    CASE field = "Full Name" -> "What is your **Full Name**?"
      [] field = "Email Address" -> "Please share your **Email Address**."
      [] field = "Phone Number" -> "What is your **Phone Number**?"
      [] field = "Years of Experience" -> "How many **Years of Experience** do you have?"
      [] field = "Desired Position(s)" -> "What is/are your **Desired Position(s)**?"
      [] field = "Current Location" -> "Where are you currently located?"
      [] field = "Tech Stack" ->
           "Please list your **Tech Stack** (comma-separated, e.g., Python, Django, React)."

ask_next_field(S) ==
    IF S.field_index >= Len(FIELDS) THEN S
    ELSE say(S, FieldPrompt(FIELDS[S.field_index + 1]))

Store(S, field, value) == [S EXCEPT !.candidate[field] = Some(value)]

MinPhoneDigits == 7
MaxPhoneDigits == 15
MinTextLen == 2

\* err: the re-ask message or None; S: the session with the value stored
validate_and_store(S, field, user_text) ==
    LET u == strip(user_text)
        digits == OnlyDigits(u)
        ts == tech_list_from_input(u)
        Bad(msg) == [err |-> Some(msg), S |-> S]
        Good(T) == [err |-> None, S |-> T]
    IN  CASE field = "Full Name" ->
               IF Len(split_ws(u)) < 2
               THEN Bad("Please enter your **first and last name**.")
               ELSE Good(Store(S, field, anonymize(u)))
          [] field = "Email Address" ->
               IF ~Contains(u, "@") \/ ~Contains(u, ".")
               THEN Bad("That doesn't look like a valid email. Please re-enter your **Email Address**.")
               ELSE Good(Store(S, field, mask_email(u)))
          [] field = "Phone Number" ->
               IF ~(MinPhoneDigits <= Len(digits) /\ Len(digits) <= MaxPhoneDigits)
               THEN Bad("Please enter a valid **Phone Number** (7-15 digits).")
               ELSE Good(Store(S, field, anonymize(u)))
          [] field = "Years of Experience" ->
               IF ~isdigit(u)
               THEN Bad("Please enter your experience in **numbers only** (e.g., 3).")
               ELSE Good(Store(S, field, u))
          [] field = "Desired Position(s)" ->
               IF Len(u) < MinTextLen
               THEN Bad("That seems too short. Please provide your **Desired Position(s)**.")
               ELSE Good(Store(S, field, u))
          [] field = "Current Location" ->
               IF Len(u) < MinTextLen
               THEN Bad("Please provide a valid **Current Location** (city/region).")
               ELSE Good(Store(S, field, u))
          [] field = "Tech Stack" ->
               IF ts = <<>>
               THEN Bad("I couldn't understand your tech stack. Please list technologies **comma-separated** (e.g., Python, Django).")
               ELSE Good([Store(S, field, join(", ", ts)) EXCEPT !.techs = ts])
          [] OTHER -> Good(S)

RatingPrompt(lead, t) ==
    lead \o "On a scale of 1-10, how confident are you in **" \o t \o "**?"

QuestionLabel(t, n, q) == "**" \o t \o " Q" \o StrOf(n) \o ":** " \o q

\* the snapshot dict handed to save_simulated (which adds the timestamp)
Snapshot(S, summary) ==
    [info |-> S.candidate, ratings |-> S.ratings, answers |-> S.answers,
     summary |-> summary]

save_simulated(S, snapshot) ==
    [S EXCEPT !.saved = Append(@, snapshot), !.appended = @ + 1]

\* the snapshot is saved without looking at the consent checkbox
SaveRegardless(S, summary) == save_simulated(S, Snapshot(S, summary))

\* "if st.session_state.consent: ... save_simulated(snapshot)"
SaveIfConsent(S, summary) ==
    IF S.consent THEN save_simulated(S, Snapshot(S, summary)) ELSE S

\* d[k] = v on a dict
SetKey(d, k, v) == [x \in (DOMAIN d) \cup {k} |-> IF x = k THEN v ELSE d[x]]

\* "for t in techs: for q in qmap.get(t, []): flat.append({"tech": t, "q": q})"
RECURSIVE Flatten(_, _)
Flatten(ts, qm) ==
    IF ts = <<>> THEN <<>>
    ELSE LET t == Head(ts)
             qs == IF t \in DOMAIN qm THEN qm[t] ELSE <<>>
         IN  [i \in 1..Len(qs) |-> [tech |-> t, q |-> qs[i]]] \o Flatten(Tail(ts), qm)

\* 1 + sum(1 for i in range(ptr) if flat[i]["tech"] == next_q["tech"])
CountForTech(flat, ptr) ==
    1 + Cardinality({i \in 1..ptr : flat[i].tech = flat[ptr + 1].tech})

\* lines 272-285: the end keyword is handled before the dispatch on the step
end_step(S) == SaveIfConsent(say(S, Closing), None)

\* lines 300-312: the last field is stored
enter_ratings(S) ==
    LET T == [S EXCEPT !.step = "ratings", !.rating_idx = 0]
    IN  IF T.techs # <<>>
        THEN say(say(T, "Before technical questions, please rate your confidence for each tech (1-10)."),
                 RatingPrompt("", T.techs[1]))
        ELSE [say(T, "Let's move to technical questions.")
                 EXCEPT !.step = "tech_q", !.q_ptr = 0]

\* the field index moves on even when the value is rejected
fields_step_advancing(S, m) ==
    LET r == validate_and_store(S, FIELDS[S.field_index + 1], m)
        T == [r.S EXCEPT !.field_index = @ + 1]
    IN  IF r.err # None /\ T.field_index < Len(FIELDS) THEN say(T, r.err[1])
        ELSE IF r.err # None THEN say(S, r.err[1])
        ELSE IF T.field_index < Len(FIELDS) THEN ask_next_field(T)
        ELSE enter_ratings(T)

\* lines 291-312
fields_step(S, m) ==
    LET r == validate_and_store(S, FIELDS[S.field_index + 1], m)
        T == [r.S EXCEPT !.field_index = @ + 1]
    IN  IF r.err # None THEN say(S, r.err[1])
        ELSE IF T.field_index < Len(FIELDS) THEN ask_next_field(T)
        ELSE enter_ratings(T)

\* the recovery starts the fields over instead of re-asking the Tech Stack
questions_ready_restarting(S, cleaned) ==
    LET flat == Flatten(S.techs, cleaned)
        T == [S EXCEPT !.qmap = cleaned, !.flat_questions = flat, !.q_ptr = 0,
                       !.step = "tech_q"]
    IN  IF flat # <<>>
        THEN say(T, QuestionLabel(flat[1].tech, 1, flat[1].q))
        ELSE [say(T, "I couldn't generate questions right now. Please re-enter your **Tech Stack**.")
                 EXCEPT !.step = "fields", !.field_index = 0]

\* lines 333-347: the questions came back
questions_ready(S, cleaned) ==
    LET flat == Flatten(S.techs, cleaned)
        T == [S EXCEPT !.qmap = cleaned, !.flat_questions = flat, !.q_ptr = 0,
                       !.step = "tech_q"]
    IN  IF flat # <<>>
        THEN say(T, QuestionLabel(flat[1].tech, 1, flat[1].q))
        ELSE [say(T, "I couldn't generate questions right now. Please re-enter your **Tech Stack**.")
                 EXCEPT !.step = "fields", !.field_index = TechStackIndex]

\* lines 329-347: llm_generate_questions is not inside a try, so its
\* RuntimeError ends the run where it is raised
generate_questions(S, outcomes) ==
    LET r == llm_generate_questions(S.techs, outcomes)
        T == [say(S, "Great. Generating technical questions...")
                 EXCEPT !.gen = Append(@, r.call)]
    IN  IF r.raised THEN [T EXCEPT !.crashed = TRUE]
        ELSE questions_ready(T, r.cleaned)

\* lines 315-347
ratings_step(S, m, outcomes) ==
    LET idx == S.rating_idx
        val == parse_1_to_10(m)
        T == [S EXCEPT !.ratings = SetKey(@, S.techs[idx + 1], val[1]),
                       !.rating_idx = idx + 1]
    IN  IF ~(0 <= idx /\ idx < Len(S.techs)) THEN S
        ELSE IF val = None THEN say(S, "Please enter a number **1-10**.")
        ELSE IF idx + 1 < Len(S.techs)
             THEN say(T, RatingPrompt("Thanks. ", S.techs[idx + 2]))
        ELSE generate_questions(T, outcomes)

\* the snapshot keeps no summary when the summary call failed
finish_without_fallback(S, outcomes) ==
    LET r == llm_final_summary(outcomes)
        final == IF r.raised THEN SummaryUnavailable ELSE r.text
        T == [say(S, "Thanks! Preparing a brief summary...")
                 EXCEPT !.step = "summary", !.gen = Append(@, r.call),
                        !.summaries = @ + 1, !.final_summary = Some(final)]
        U == SaveIfConsent(say(say(T, final), Closing),
                           IF r.raised THEN None ELSE Some(final))
    IN  [U EXCEPT !.step = "done"]

\* the step is not set to done and the cursor stays on the last question
finish_rewinding(S, outcomes) ==
    LET r == llm_final_summary(outcomes)
        final == IF r.raised THEN SummaryUnavailable ELSE r.text
        T == [say(S, "Thanks! Preparing a brief summary...")
                 EXCEPT !.step = "summary", !.gen = Append(@, r.call),
                        !.summaries = @ + 1, !.final_summary = Some(final)]
        U == SaveIfConsent(say(say(T, final), Closing), Some(final))
    IN  [U EXCEPT !.step = "tech_q", !.q_ptr = @ - 1]

\* lines 378-404: the last answer is in
finish(S, outcomes) ==
    LET r == llm_final_summary(outcomes)
        final == IF r.raised THEN SummaryUnavailable ELSE r.text
        T == [say(S, "Thanks! Preparing a brief summary...")
                 EXCEPT !.step = "summary", !.gen = Append(@, r.call),
                        !.summaries = @ + 1, !.final_summary = Some(final)]
        U == SaveIfConsent(say(say(T, final), Closing), Some(final))
    IN  [U EXCEPT !.step = "done"]

\* the answer is dropped, not recorded without a score, when the scorer fails
tech_q_step_dropping(S, m, score_outcomes, summary_outcomes) ==
    LET ptr == S.q_ptr
        flat == S.flat_questions
        current == flat[ptr + 1]
        r == llm_score_answer(score_outcomes)
        record == [tech |-> current.tech, question |-> current.q, answer |-> strip(m),
                   score |-> r.score, feedback |-> r.feedback]
        T == [S EXCEPT !.gen = Append(@, r.call),
                       !.answers = IF r.raised THEN @ ELSE Append(@, record),
                       !.q_ptr = ptr + 1]
    IN  IF ~(0 <= ptr /\ ptr < Len(flat)) THEN S
        ELSE IF ptr + 1 < Len(flat)
             THEN say(T, QuestionLabel(flat[ptr + 2].tech, CountForTech(flat, ptr + 1),
                                       flat[ptr + 2].q))
        ELSE finish(T, summary_outcomes)

\* the scorer is called outside a try: its RuntimeError ends the run
tech_q_step_uncaught(S, m, score_outcomes, summary_outcomes) ==
    LET ptr == S.q_ptr
        flat == S.flat_questions
        current == flat[ptr + 1]
        r == llm_score_answer(score_outcomes)
        record == [tech |-> current.tech, question |-> current.q, answer |-> strip(m),
                   score |-> r.score, feedback |-> r.feedback]
        T == [S EXCEPT !.gen = Append(@, r.call), !.answers = Append(@, record),
                       !.q_ptr = ptr + 1]
    IN  IF ~(0 <= ptr /\ ptr < Len(flat)) THEN S
        ELSE IF r.raised THEN [S EXCEPT !.gen = Append(@, r.call), !.crashed = TRUE]
        ELSE IF ptr + 1 < Len(flat)
             THEN say(T, QuestionLabel(flat[ptr + 2].tech, CountForTech(flat, ptr + 1),
                                       flat[ptr + 2].q))
        ELSE finish(T, summary_outcomes)

\* lines 350-404
tech_q_step(S, m, score_outcomes, summary_outcomes) ==
    LET ptr == S.q_ptr
        flat == S.flat_questions
        current == flat[ptr + 1]
        r == llm_score_answer(score_outcomes)
        \* "except Exception: score_pack = {"score": None, "feedback": None}"
        record == [tech |-> current.tech, question |-> current.q, answer |-> strip(m),
                   score |-> r.score, feedback |-> r.feedback]
        T == [S EXCEPT !.gen = Append(@, r.call), !.answers = Append(@, record),
                       !.q_ptr = ptr + 1]
    IN  IF ~(0 <= ptr /\ ptr < Len(flat)) THEN S
        ELSE IF ptr + 1 < Len(flat)
             THEN say(T, QuestionLabel(flat[ptr + 2].tech, CountForTech(flat, ptr + 1),
                                       flat[ptr + 2].q))
        ELSE finish(T, summary_outcomes)

\* lines 406-408
summary_step(S) == say(S, "Thanks again! You may close this window.")

\* a message after the end starts the interview over
done_step_restarting(S) ==
    ask_next_field([say(S, "Session completed. Type 'exit' to close.")
                       EXCEPT !.step = "fields", !.field_index = 0])

\* lines 410-411
done_step(S) == say(S, "Session completed. Type 'exit' to close.")

\* lines 290-411: the if/elif chain on st.session_state.step
dispatch(S, m, outcomes1, outcomes2) ==
    CASE S.step = "fields" -> fields_step(S, m)
      [] S.step = "ratings" -> ratings_step(S, m, outcomes1)
      [] S.step = "tech_q" -> tech_q_step(S, m, outcomes1, outcomes2)
      [] S.step = "summary" -> summary_step(S)
      [] S.step = "done" -> done_step(S)
      [] OTHER -> S

\* lines 265-269
greet(S) ==
    IF S.step = "greet"
    THEN ask_next_field([say(S, Greeting) EXCEPT !.step = "fields", !.field_index = 0])
    ELSE S

(***************************************************************************)
(* The environment: what the user types and what the backend answers.      *)
(***************************************************************************)
EndSamples == {"exit", "  Thank You "}

FieldInputs(field) ==
    CASE field = "Full Name" -> {"John Smith", "goodbye"}
      [] field = "Email Address" -> {"jdoe@example.com", "jdoe.example.com"}
      [] field = "Phone Number" -> {"555-1234567", "12345"}
      [] field = "Years of Experience" -> {"3", "three"}
      [] field = "Desired Position(s)" -> {"QA", "x"}
      [] field = "Current Location" -> {"Pune", " z "}
      [] field = "Tech Stack" -> {"Go", "Go,Go", " R , 1, ", "1, 2"}

RatingInputs == {"I'd say 8", "100"}
AnswerInputs == {" I use it daily. "}
LateInputs == {"hello"}

\* what the user may type at the chat input in the current state
UserInputs ==
    EndSamples \cup
    (CASE step = "fields" /\ field_index < Len(FIELDS) -> FieldInputs(FIELDS[field_index + 1])
       [] step = "ratings" -> RatingInputs
       [] step = "tech_q" -> AnswerInputs
       [] OTHER -> LateInputs)

QuestionReplies ==
    { Prose("Sorry, I cannot help with that."),
      Text("Here you go: ",
           JDict([Go |-> JStr("What is a goroutine?"),
                  r |-> JList(<<"What is a vector?", "", "What is a factor?",
                                " What is a data frame? ", "What does apply do?",
                                "What is a closure?", "What is CRAN?">>)]),
           " Good luck!"),
      Text("",
           JDict([Go |-> JList(<<"What is a goroutine?", "How do channels work?",
                                 "What does defer do?">>),
                  R |-> JList(<<"What is a data frame?", " ">>)]),
           "\n") }

ScoreReplies ==
    { Text("", JDict([score |-> JNum(7), feedback |-> JStr("Clear and correct.")]), ""),
      Text("Sure! ", JDict([score |-> JStr("15")]), " thanks"),
      Prose("I would rate this answer highly.") }

SummaryReplies == { Prose(" Strong backend profile. \n") }

\* the attempts of one safe_generate call: k failures, then a reply (or none)
Outcomes(retries, replies) ==
    { [i \in 1..retries |-> IF i <= k THEN Failure ELSE Reply(r)] :
          k \in 0..(retries - 1), r \in replies }
    \cup { [i \in 1..retries |-> Failure] }

NoCall == <<>>

\* the first generation call a run in this state can make, and the second
FirstCall(m) ==
    CASE step = "ratings" /\ rating_idx + 1 = Len(techs) /\ parse_1_to_10(m) # None ->
           Outcomes(QuestionRetries, QuestionReplies)
      [] step = "tech_q" /\ q_ptr < Len(flat_questions) ->
           Outcomes(ScoreRetries, ScoreReplies)
      [] OTHER -> {NoCall}

SecondCall ==
    IF step = "tech_q" /\ q_ptr + 1 = Len(flat_questions)
    THEN Outcomes(SummaryRetries, SummaryReplies)
    ELSE {NoCall}

(***************************************************************************)
(* The script runs.                                                        *)
(***************************************************************************)
Commit(S) ==
    /\ step' = S.step
    /\ field_index' = S.field_index
    /\ candidate' = S.candidate
    /\ techs' = S.techs
    /\ ratings' = S.ratings
    /\ rating_idx' = S.rating_idx
    /\ qmap' = S.qmap
    /\ flat_questions' = S.flat_questions
    /\ q_ptr' = S.q_ptr
    /\ answers' = S.answers
    /\ consent' = S.consent
    /\ final_summary' = S.final_summary
    /\ run' = S.run
    /\ said' = S.said
    /\ gen' = S.gen
    /\ crashed' = S.crashed
    /\ saved' = S.saved
    /\ appended' = S.appended
    /\ summaries' = S.summaries
    /\ UNCHANGED <<applied, returned>>

Init ==
    /\ step = Fresh.step
    /\ field_index = Fresh.field_index
    /\ candidate = Fresh.candidate
    /\ techs = Fresh.techs
    /\ ratings = Fresh.ratings
    /\ rating_idx = Fresh.rating_idx
    /\ qmap = Fresh.qmap
    /\ flat_questions = Fresh.flat_questions
    /\ q_ptr = Fresh.q_ptr
    /\ answers = Fresh.answers
    /\ consent = Fresh.consent
    /\ final_summary = Fresh.final_summary
    /\ run = Fresh.run
    /\ said = Fresh.said
    /\ gen = Fresh.gen
    /\ crashed = Fresh.crashed
    /\ saved = Fresh.saved
    /\ appended = Fresh.appended
    /\ summaries = Fresh.summaries
    /\ applied = None
    /\ returned = None

\* the first run of a session: no input yet
Load ==
    /\ step = "greet"
    /\ \E S \in {greet(Begin(Cur, "load"))} : Commit(S)

\* the consent checkbox is toggled: a run without chat input
ToggleConsent ==
    /\ step # "greet"
    /\ \E S \in {[Begin(Cur, "consent") EXCEPT !.consent = ~@]} : Commit(S)

\* lines 192-195: every key is deleted and st.rerun() runs the script afresh
Erase ==
    /\ step # "greet"
    /\ \E S \in {greet(Begin(Fresh, "erase"))} : Commit(S)

\* a run whose chat input is an end keyword
EndMessage(m) ==
    /\ step # "greet"
    /\ is_end_message(m)
    /\ \E S \in {end_step(Begin(Cur, "end"))} :
          S.appended <= MaxSnapshots /\ Commit(S)

\* the sessions a run on chat input m can leave, one per backend behaviour
Handled(m) ==
    { S \in { dispatch(Begin(Cur, "input"), m, o1, o2) :
                 o1 \in FirstCall(m), o2 \in SecondCall } :
        S.appended <= MaxSnapshots }

\* a run whose chat input is any other non-empty text
UserMessage(m) ==
    /\ step # "greet"
    /\ m # ""
    /\ ~is_end_message(m)
    /\ \E S \in Handled(m) : Commit(S)

Next ==
    \/ Load
    \/ ToggleConsent
    \/ Erase
    \/ \E m \in UserInputs : EndMessage(m)
    \/ \E m \in UserInputs : UserMessage(m)

Spec == Init /\ [][Next]_vars

(***************************************************************************)
(* The cooperative session: the user answers every prompt with a value its *)
(* validator accepts.  Streamlit runs the script for every message that is *)
(* submitted, so a user who keeps answering is a weakly fair NextLive.     *)
(***************************************************************************)
ValidInput(m) ==
    CASE step = "fields" /\ field_index < Len(FIELDS) ->
           validate_and_store(Cur, FIELDS[field_index + 1], m).err = None
      [] step = "ratings" -> parse_1_to_10(m) # None
      [] step = "tech_q" -> TRUE
      [] OTHER -> FALSE

Cooperate == \E m \in UserInputs : ValidInput(m) /\ UserMessage(m)

\* ENABLED <<Cooperate>>_vars as a state predicate: some valid input leaves
\* a session that differs from the current one
CanCooperate ==
    /\ step # "greet"
    /\ \E m \in UserInputs :
          /\ ValidInput(m)
          /\ m # ""
          /\ ~is_end_message(m)
          /\ \E S \in Handled(m) : S # Cur

NextLive ==
    \/ Load
    \/ Cooperate

\* weak fairness of the first run, and of Cooperate with its enabling
\* condition written out: WF_vars(Cooperate) is
\* []<>~ENABLED <<Cooperate>>_vars \/ []<><<Cooperate>>_vars
Fairness ==
    /\ WF_vars(Load)
    /\ ([]<>~CanCooperate) \/ ([]<><<Cooperate>>_vars)

SpecLive == Init /\ [][NextLive]_vars /\ Fairness

(***************************************************************************)
(* The helper functions on their own: each action applies one function to  *)
(* arguments drawn from a bounded set and keeps what it returned.  The     *)
(* session is not touched.                                                 *)
(***************************************************************************)
\* what one attempt of the backend can do: raise, or reply with a text
Attempts == {Failure, Reply(Prose("first reply")), Reply(Prose("second reply"))}

Helpers == {"llm_generate_questions", "llm_score_answer", "llm_final_summary"}

Locals == {"jdoe", "a", "ab", "J.Doe", "x_y+z9"}
Domains == {"example.com", "mail.org", "b@c.io"}

EmailInputs ==
    {u \o "@" \o d : u \in Locals, d \in Domains}
    \cup {"@example.com", "@1.2", " jdoe@example.com \n", "jdoe.example.com", "jdoe@localhost"}

PhoneInputs ==
    {"555-1234567", "5551234", "+1 (555) 010-9999", "12-34-56-78", "12 34 56 7",
     "555 12 34", "12345", "1234567890123456", "call 5551234 after 5"}

\* safe_generate(prompt, retries=n) against a backend that behaves as outcomes
Generate ==
    /\ \E n \in 0..MaxRetries : \E outcomes \in [1..n -> Attempts] :
          /\ applied' = Some([fn |-> "safe_generate", retries |-> n,
                               outcomes |-> outcomes])
          /\ returned' = Some(safe_generate(outcomes, n))
    /\ UNCHANGED session

\* whether the helper fn lets the RuntimeError of its safe_generate call out
HelperRaises(fn, outcomes) ==
    CASE fn = "llm_generate_questions" ->
           llm_generate_questions(<<"Go">>, outcomes).raised
      [] fn = "llm_score_answer" -> llm_score_answer(outcomes).raised
      [] fn = "llm_final_summary" -> llm_final_summary(outcomes).raised

\* one of the three helpers, each with the retry count of its own call
Helper ==
    /\ \E fn \in Helpers :
       \E outcomes \in [1..MaxRetries -> {Failure, Reply(Prose("first reply"))}] :
          /\ applied' = Some([fn |-> fn, outcomes |-> outcomes])
          /\ returned' = Some([raised |-> HelperRaises(fn, outcomes)])
    /\ UNCHANGED session

MaskEmail ==
    /\ \E email \in EmailInputs :
          /\ applied' = Some([fn |-> "mask_email", email |-> email])
          /\ returned' = Some(mask_email(email))
    /\ UNCHANGED session

\* validate_and_store on the two contact fields of a new session
StoreContact ==
    /\ \E field \in {"Email Address", "Phone Number"} :
       \E text \in EmailInputs \cup PhoneInputs :
          LET r == validate_and_store(Fresh, field, text)
          IN  /\ applied' = Some([fn |-> "validate_and_store", field |-> field,
                                   user_text |-> text])
              /\ returned' = Some([err |-> r.err, stored |-> r.S.candidate[field]])
    /\ UNCHANGED session

NextFn ==
    \/ Generate
    \/ Helper
    \/ MaskEmail
    \/ StoreContact

SpecFn == Init /\ [][NextFn]_vars

(***************************************************************************)
(* Properties.                                                             *)
(***************************************************************************)
\* greet -> fields -> ratings -> tech_q -> summary -> done (app.py line 139)
PhaseRank(s) ==
    CASE s = "greet" -> 0
      [] s = "fields" -> 1
      [] s = "ratings" -> 2
      [] s = "tech_q" -> 3
      [] s = "summary" -> 4
      [] s = "done" -> 5

\* the latest run handled a chat message
HandledMessage == run \in {"input", "end"}

\* the latest run called llm_generate_questions
AskedForQuestions == gen # <<>> /\ gen[1].fn = "llm_generate_questions"

TechSet == {techs[i] : i \in 1..Len(techs)}

C2_NoDispatchAfterEnd ==
    [][(run = "end" /\ run' = "input") =>
          UNCHANGED <<candidate, field_index, ratings, answers, step>>]_vars

\* C3 as stated: a session appends at most one snapshot, and an end keyword
\* handled with consent appends exactly one, with no summary when none has
\* been produced.
C3_AtMostOneSnapshot ==
    /\ appended <= 1
    /\ (run = "end" /\ consent) =>
          /\ Len(saved) = 1
          /\ final_summary = None => saved[1].summary = None

\* C4: a run that handles a message while consent is false writes no
\* snapshot; whenever a run has written one, consent is true.
C4_SnapshotOnlyWithConsent ==
    /\ saved # <<>> => consent
    /\ (HandledMessage /\ ~consent) => saved = <<>>

\* C4 witness: the interview was completed without consent and nothing was saved.
C4_Witness ==
    /\ run = "input" /\ step = "done" /\ final_summary # None
    /\ ~consent /\ saved = <<>>

\* C5 as stated: when every backend call of question generation fails, every
\* tech still gets at least 3 questions, the step becomes tech_q and the
\* first question is presented.
C5_QuestionsDespiteBackendFailure ==
    (AskedForQuestions /\ gen[1].raised) =>
        /\ ~crashed
        /\ step = "tech_q"
        /\ \A t \in TechSet : t \in DOMAIN qmap /\ Len(qmap[t]) >= MinQuestions
        /\ flat_questions # <<>>
        /\ said[Len(said)]
             = QuestionLabel(flat_questions[1].tech, 1, flat_questions[1].q)

\* C6 as stated: whatever text the backend returns, the generated mapping
\* holds between 3 and 5 non-empty questions for every tech of the input.
C6_ThreeToFivePerTech ==
    (AskedForQuestions /\ ~gen[1].raised) =>
        \A t \in TechSet :
            /\ t \in DOMAIN qmap
            /\ MinQuestions <= Len(qmap[t]) /\ Len(qmap[t]) <= MaxQuestions
            /\ \A i \in 1..Len(qmap[t]) : qmap[t][i] # ""

\* C7 as stated: whenever question generation is invoked, ratings holds
\* exactly len(techs) entries, one per tech, each an integer from 1 to 10.
C7_RatingsMatchTechs ==
    AskedForQuestions =>
        /\ Cardinality(DOMAIN ratings) = Len(techs)
        /\ DOMAIN ratings = TechSet
        /\ \A t \in DOMAIN ratings : ratings[t] \in 1..10

\* C8 as stated: from the ratings step on, techs holds between 1 and 10
\* pairwise distinct names.
C8_TechsDistinct ==
    step \in {"ratings", "tech_q", "summary", "done"} =>
        /\ 1 <= Len(techs) /\ Len(techs) <= MaxTechs
        /\ \A i, j \in 1..Len(techs) : i # j => techs[i] # techs[j]

\* C9: there are never more answers than questions, the i-th answer carries
\* the tech and the text of the i-th question, and in the summary and done
\* steps every question has its answer.
C9_AnswersFollowQuestions ==
    /\ Len(answers) <= Len(flat_questions)
    /\ \A i \in 1..Len(answers) :
          /\ answers[i].tech = flat_questions[i].tech
          /\ answers[i].question = flat_questions[i].q
    /\ step \in {"summary", "done"} => Len(answers) = Len(flat_questions)

\* C9 witness: an interview with questions has been answered to the end.
C9_Witness ==
    /\ step = "done"
    /\ flat_questions # <<>>
    /\ Len(answers) = Len(flat_questions)

\* C10 as stated: a user who answers every prompt with a valid value
\* eventually reaches done, with an answer per question and a summary.
C10_CooperativeSessionCompletes ==
    <>(/\ step = "done"
       /\ Len(answers) = Len(flat_questions)
       /\ final_summary # None)

\* the re-ask message the validator of the current prompt returns for m, or None
Rejection(m) ==
    CASE step = "fields" /\ field_index < Len(FIELDS) ->
           validate_and_store(Cur, FIELDS[field_index + 1], m).err
      [] step = "ratings" /\ rating_idx < Len(techs) /\ parse_1_to_10(m) = None ->
           Some("Please enter a number **1-10**.")
      [] OTHER -> None

\* C11: a run on a message that the validator of the current field, or the
\* rating parser, rejects says the re-ask message and nothing else, and
\* leaves step, field_index, candidate, techs, rating_idx and ratings as
\* they were.
C11_RejectedInputChangesNothing ==
    [][(step \in {"fields", "ratings"} /\ run' = "input") =>
          \A m \in UserInputs :
             (Rejection(m) # None /\ UserMessage(m)) =>
                 /\ said' = <<Rejection(m)[1]>>
                 /\ UNCHANGED <<step, field_index, candidate, techs, rating_idx,
                                ratings>>]_vars

\* C11 witness: a phone number was rejected after the e-mail address was stored.
C11_Witness ==
    /\ run = "input" /\ step = "fields" /\ field_index = 2
    /\ said = <<"Please enter a valid **Phone Number** (7-15 digits).">>
    /\ candidate["Email Address"] # None
    /\ candidate["Phone Number"] = None

\* this step is a run on a message that the validator of the current field accepts
FieldAccepted ==
    /\ step = "fields"
    /\ \E m \in UserInputs : Rejection(m) = None /\ UserMessage(m)

C13_DoneChangesNothing ==
    [][(step = "done" /\ HandledMessage') =>
          /\ said' \in {<<"Session completed. Type 'exit' to close.">>, <<Closing>>}
          /\ saved' = <<>>
          /\ UNCHANGED <<step, field_index, candidate, techs, ratings, qmap,
                         flat_questions, q_ptr, answers, final_summary,
                         appended>>]_vars

\* the latest run called the scorer, and the call raised after its retries
\* or returned a text that holds no JSON object
ScorerFailed ==
    /\ gen # <<>>
    /\ gen[1].fn = "llm_score_answer"
    /\ gen[1].raised \/ ~gen[1].json

\* C14: a run in tech_q whose scoring call fails still appends exactly one
\* answer record, with score and feedback absent, moves q_ptr on by one
\* and either asks the next question or goes on to the summary and ends
\* in done; the run is not aborted.
C14_ScoringFailureStillRecords ==
    [][(HandledMessage' /\ ScorerFailed') =>
          /\ step = "tech_q"
          /\ ~crashed'
          /\ Len(answers') = Len(answers) + 1
          /\ SubSeq(answers', 1, Len(answers)) = answers
          /\ answers'[Len(answers')].score = None
          /\ answers'[Len(answers')].feedback = None
          /\ q_ptr' = q_ptr + 1
          /\ IF q_ptr' < Len(flat_questions)
             THEN /\ step' = "tech_q"
                  /\ said' = <<QuestionLabel(flat_questions[q_ptr' + 1].tech,
                                             CountForTech(flat_questions, q_ptr'),
                                             flat_questions[q_ptr' + 1].q)>>
             ELSE /\ step' = "done"
                  /\ final_summary' # None]_vars

\* C14 witness: the scorer has raised on an answer that was not the last one.
C14_Witness ==
    /\ run = "input" /\ ScorerFailed /\ gen[1].raised
    /\ step = "tech_q" /\ q_ptr < Len(flat_questions)
    /\ answers # <<>> /\ answers[Len(answers)].score = None

\* C15 as stated: the score of every answer record is absent or an integer
\* from 1 to 10.
C15_ScoreInRange ==
    \A i \in 1..Len(answers) :
        answers[i].score = None \/ answers[i].score[1] \in 1..10

\* the latest run called llm_final_summary
AskedForSummary == \E i \in 1..Len(gen) : gen[i].fn = "llm_final_summary"

\* the latest run called llm_final_summary and the call raised after its retries
SummaryFailed ==
    \E i \in 1..Len(gen) : gen[i].fn = "llm_final_summary" /\ gen[i].raised

\* C16: a run whose summary call fails says the summary-unavailable text
\* and then the closing text, keeps that text as the final summary, saves
\* with consent one snapshot whose summary is that text (none without
\* consent), and ends in done.
C16_SummaryFailureFallsBack ==
    SummaryFailed =>
        /\ ~crashed
        /\ step = "done"
        /\ final_summary = Some(SummaryUnavailable)
        /\ Len(said) >= 2
        /\ said[Len(said) - 1] = SummaryUnavailable
        /\ said[Len(said)] = Closing
        /\ IF consent
           THEN Len(saved) = 1 /\ saved[1].summary = Some(SummaryUnavailable)
           ELSE saved = <<>>

\* C16 witness: the summary call failed in a session with consent.
C16_Witness == SummaryFailed /\ consent /\ saved # <<>> /\ step = "done"

\* C17: a session calls llm_final_summary at most once, whatever messages
\* it is sent; the call is made by the run that handles the last answer.
C17_SummaryAtMostOnce ==
    /\ summaries <= 1
    /\ summaries = 1 <=> final_summary # None
    /\ AskedForSummary => (run = "input" /\ summaries = 1)

\* C17 witness: a message sent after the summary was made has been handled.
C17_Witness ==
    /\ summaries = 1 /\ step = "done"
    /\ run = "input" /\ ~AskedForSummary
    /\ said = <<"Session completed. Type 'exit' to close.">>

\* the function fn was applied on its own
Applied(fn) == applied # None /\ applied[1].fn = fn

\* the attempts among the first n of outcomes that succeed
Successes(outcomes, n) == {j \in 1..n : outcomes[j].ok}

\* C18: safe_generate with retry count n calls the backend at most n times;
\* it returns the text of the first successful attempt and calls no more;
\* it raises exactly when all n attempts fail, after n calls; after the
\* failed attempt i (from 0) it sleeps backoff * 2^i; llm_generate_questions
\* raises exactly when 3 attempts fail, llm_score_answer and
\* llm_final_summary when 2 attempts fail.
C18_RetriesAndBackoff ==
    /\ Applied("safe_generate") =>
          LET n == applied[1].retries
              o == applied[1].outcomes
              r == returned[1]
              ok == Successes(o, n)
              first == CHOOSE j \in ok : \A k \in ok : j <= k
              failed == IF ok = {} THEN n ELSE first - 1
          IN  /\ r.calls <= n
              /\ r.raised <=> ok = {}
              /\ r.raised => r.calls = n
              /\ ~r.raised => r.calls = first /\ r.text = o[first].text
              /\ r.slept = [i \in 1..failed |-> Backoff * Pow2(i - 1)]
    /\ \A fn \in Helpers : Applied(fn) =>
          LET n == IF fn = "llm_generate_questions" THEN 3 ELSE 2
          IN  returned[1].raised <=> Successes(applied[1].outcomes, n) = {}

\* C18 witness: the third attempt succeeded after two failures and two sleeps.
C18_Witness ==
    /\ Applied("safe_generate")
    /\ applied[1].retries = 3
    /\ ~returned[1].raised /\ returned[1].calls = 3
    /\ returned[1].slept = <<1, 2>>

\* the positions of "@" in s
AtSigns(s) == {i \in 1..Len(s) : Char(s, i) = "@"}

\* s consists of "*" only
AllStars(s) == \A i \in 1..Len(s) : Char(s, i) = "*"

\* C19 as stated: for an address with a non-empty local part, mask_email
\* keeps the first character, puts stars in place of the rest of the local
\* part and keeps everything from the first "@" on; and
\* mask_email("jdoe@example.com") = "j****@example.com".
C19_MaskEmailAsStated ==
    Applied("mask_email") =>
        LET e == strip(applied[1].email)
            r == returned[1]
            at == CHOOSE i \in AtSigns(e) : \A j \in AtSigns(e) : i <= j
            tail == SubSeq(e, at, Len(e))
        IN  /\ (AtSigns(e) # {} /\ at > 1) =>
                  /\ Len(r) > Len(tail)
                  /\ Char(r, 1) = Char(e, 1)
                  /\ SubSeq(r, Len(r) - Len(tail) + 1, Len(r)) = tail
                  /\ AllStars(SubSeq(r, 2, Len(r) - Len(tail)))
            /\ e = "jdoe@example.com" => r = "j****@example.com"

\* C19 amended: the same, with one star for each character of the local
\* part after the first and a single star when there is none; and
\* mask_email("jdoe@example.com") = "j***@example.com".
C19_MaskEmailOneStarPerChar ==
    Applied("mask_email") =>
        LET e == strip(applied[1].email)
            r == returned[1]
            at == CHOOSE i \in AtSigns(e) : \A j \in AtSigns(e) : i <= j
            tail == SubSeq(e, at, Len(e))
            stars == IF at > 2 THEN at - 2 ELSE 1
        IN  /\ (AtSigns(e) # {} /\ at > 1) =>
                  /\ Len(r) = 1 + stars + Len(tail)
                  /\ Char(r, 1) = Char(e, 1)
                  /\ SubSeq(r, Len(r) - Len(tail) + 1, Len(r)) = tail
                  /\ AllStars(SubSeq(r, 2, Len(r) - Len(tail)))
            /\ e = "jdoe@example.com" => r = "j***@example.com"

\* C19 witness: mask_email was applied to the address of the example.
C19_Witness ==
    /\ Applied("mask_email")
    /\ applied[1].email = "jdoe@example.com"
    /\ returned = Some("j***@example.com")

\* C20 as stated: the value validate_and_store keeps for an accepted Email
\* Address or Phone Number is not the text that was entered, and for a
\* phone number the digits that were entered cannot be read from it.
C20_NoRawContactStored ==
    Applied("validate_and_store") =>
        LET raw == applied[1].user_text
            r == returned[1]
        IN  r.err = None =>
              /\ r.stored # None
              /\ r.stored[1] # raw
              /\ r.stored[1] # strip(raw)
              /\ applied[1].field = "Phone Number" =>
                    OnlyDigits(r.stored[1]) # OnlyDigits(raw)

\* C21 as stated: a run on a user message that is not an end keyword says
\* at least one assistant message, in every state the session can reach.
C21_EveryMessageIsAnswered ==
    run = "input" => said # <<>>

====
